---- MODULE Spec2Model ----
(***************************************************************************)
(* Model of the UID dominance dashboard (src/example_web/main.py): the     *)
(* stats reconstructor, the pairwise dominance evaluator, the population   *)
(* dominance builder and the per-block snapshot cache of                   *)
(* get_all_dominance_data, with concurrent callers.                        *)
(*                                                                         *)
(* Numbers.  Scores, thresholds and completeness are floats in [0,1] in    *)
(* the code; here they are integers in thousandths (800 = 0.80).  The      *)
(* threshold comparison of _check_dominance is carried out in units of     *)
(* 1e-9 so that eps = 1e-9 is exactly one unit.  Environment names are     *)
(* the integers 1..MaxEnvs in the order sorted() gives the names; hotkeys  *)
(* are integers; a uid is the 0-based index into meta.hotkeys.  A          *)
(* first_block of 0 stands for a missing (falsy) first_block.              *)
(***************************************************************************)
EXTENDS Integers, Sequences, FiniteSets, TLC

(***************************************************************************)
(* Program constants                                                       *)
(***************************************************************************)
\* 1.0 in thousandths
Milli == 1000
\* 1.0 in units of 1e-9
One == 1000000000
\* units of 1e-9 per thousandth
NanoPerMilli == One \div Milli
\* ERROR_RATE_REDUCTION = 0.2, as the divisor 1/0.2
ErrorRateDivisor == 5
\* MIN_IMPROVEMENT = 0.02, in units of 1e-9
MIN_IMPROVEMENT == 20000000
\* MAX_IMPROVEMENT = 0.1, in units of 1e-9
MAX_IMPROVEMENT == 100000000
\* eps = 1e-9, in units of 1e-9
Eps == 1
\* the cache keeps at most this many block keys
CacheLimit == 10
\* default min_completeness 0.95
DefaultMinCompleteness == 950
\* BLOCK_TIME_SECONDS
BLOCK_TIME_SECONDS == 12

(***************************************************************************)
(* Helpers for Python dicts (functions on a subset of the keys) and lists  *)
(***************************************************************************)
EmptyMap == [x \in {} |-> 0]

SeqRange(s) == {s[i] : i \in 1..Len(s)}

Min2(a, b) == IF a <= b THEN a ELSE b

Max2(a, b) == IF a >= b THEN a ELSE b

SetMin(S) == CHOOSE x \in S : \A y \in S : x <= y

\* sorted(S) for a set of integers
RECURSIVE SortedSeq(_)
SortedSeq(S) == IF S = {} THEN <<>> ELSE <<SetMin(S)>> \o SortedSeq(S \ {SetMin(S)})

\* d.get(k, default)
Get(d, k, default) == IF k \in DOMAIN d THEN d[k] ELSE default

\* int(round(num / den)) for num >= 0, den > 0: Python rounds halves to even
RoundDiv(num, den) ==
    LET q == num \div den
        r == num % den
    IN  IF 2 * r < den THEN q
        ELSE IF 2 * r > den THEN q + 1
        ELSE IF q % 2 = 0 THEN q ELSE q + 1

(***************************************************************************)
(* _calculate_required_score: prior score in thousandths, result in 1e-9   *)
(***************************************************************************)
\* mutant: the improvement is not capped by MAX_IMPROVEMENT
RequiredScoreUncapped(prior_score) ==
    LET prior == prior_score * NanoPerMilli
        error_delta == (One - prior) \div ErrorRateDivisor
    IN  Min2(prior + Max2(error_delta, MIN_IMPROVEMENT), One)

\* mutant: the improvement is not floored by MIN_IMPROVEMENT
RequiredScoreUnfloored(prior_score) ==
    LET prior == prior_score * NanoPerMilli
        error_delta == (One - prior) \div ErrorRateDivisor
    IN  Min2(prior + Min2(error_delta, MAX_IMPROVEMENT), One)

CalculateRequiredScore(prior_score) ==
    LET prior == prior_score * NanoPerMilli
        error_delta == (One - prior) \div ErrorRateDivisor
        improvement == Min2(Max2(error_delta, MIN_IMPROVEMENT), MAX_IMPROVEMENT)
    IN  Min2(prior + improvement, One)

(***************************************************************************)
(* _check_dominance                                                        *)
(***************************************************************************)
EnvScore(d, e) == IF e \in DOMAIN d THEN d[e].score ELSE 0

EnvSamples(d, e) == IF e \in DOMAIN d THEN d[e].sample_count ELSE 0

\* the first truthy first_block over envs in tuple order, 0 when there is none
RECURSIVE ResolveFirstBlock(_, _, _)
ResolveFirstBlock(hk_stats, envs, i) ==
    IF i > Len(envs) THEN 0
    ELSE IF envs[i] \in DOMAIN hk_stats /\ hk_stats[envs[i]].first_block # 0
         THEN hk_stats[envs[i]].first_block
         ELSE ResolveFirstBlock(hk_stats, envs, i + 1)

\* mutant: the simple comparison does not look at the target's wins
SimpleComparisonCandidateOnly(candidate_scores, target_scores, envs) ==
    \E e \in SeqRange(envs) :
        /\ EnvSamples(candidate_scores, e) # 0 /\ EnvSamples(target_scores, e) # 0
        /\ EnvScore(candidate_scores, e) > EnvScore(target_scores, e)

\* the "simple comparison" loops (fallback and same first_block)
SimpleComparison(candidate_scores, target_scores, envs) ==
    LET both == {e \in SeqRange(envs) :
                    EnvSamples(candidate_scores, e) # 0 /\ EnvSamples(target_scores, e) # 0}
        candidate_wins == \E e \in both : EnvScore(candidate_scores, e) > EnvScore(target_scores, e)
        target_wins == \E e \in both : EnvScore(target_scores, e) > EnvScore(candidate_scores, e)
    IN  candidate_wins /\ ~target_wins

\* mutant: the later miner only has to beat the earlier miner's score
LaterWinsOverPrior(earlier_score, later_score) ==
    later_score * NanoPerMilli > earlier_score * NanoPerMilli + Eps

\* later miner wins an environment iff later_score > threshold + eps
LaterWins(earlier_score, later_score) ==
    later_score * NanoPerMilli > CalculateRequiredScore(earlier_score) + Eps

\* mutant: the result is the earlier miner's condition on either side
ThresholdComparisonEarlierAlways(candidate_is_earlier, earlier_scores, later_scores, envs) ==
    LET compared == {e \in SeqRange(envs) :
                        EnvSamples(earlier_scores, e) # 0 /\ EnvSamples(later_scores, e) # 0}
        later_wins == {e \in compared : LaterWins(EnvScore(earlier_scores, e), EnvScore(later_scores, e))}
    IN  compared # {} /\ later_wins = {}

\* mutant: the "if not valid_envs: return False" test is missing
ThresholdComparisonNoValidCheck(candidate_is_earlier, earlier_scores, later_scores, envs) ==
    LET compared == {e \in SeqRange(envs) :
                        EnvSamples(earlier_scores, e) # 0 /\ EnvSamples(later_scores, e) # 0}
        later_wins == {e \in compared : LaterWins(EnvScore(earlier_scores, e), EnvScore(later_scores, e))}
    IN  IF candidate_is_earlier THEN later_wins = {} ELSE later_wins = compared

ThresholdComparison(candidate_is_earlier, earlier_scores, later_scores, envs) ==
    LET compared == {e \in SeqRange(envs) :
                        EnvSamples(earlier_scores, e) # 0 /\ EnvSamples(later_scores, e) # 0}
        later_wins == {e \in compared : LaterWins(EnvScore(earlier_scores, e), EnvScore(later_scores, e))}
        later_wins_count == Cardinality(later_wins)
        earlier_wins_count == Cardinality(compared \ later_wins)
        valid_envs == {e \in SeqRange(envs) :
                        EnvSamples(earlier_scores, e) > 0 /\ EnvSamples(later_scores, e) > 0}
    IN  IF valid_envs = {} THEN FALSE
        ELSE IF candidate_is_earlier THEN earlier_wins_count = Cardinality(valid_envs)
        ELSE later_wins_count = Cardinality(valid_envs)

CheckDominance(candidate_hotkey, target_hotkey, envs, scores_by_env_map, stats) ==
    LET candidate_scores == Get(scores_by_env_map, candidate_hotkey, EmptyMap)
        target_scores == Get(scores_by_env_map, target_hotkey, EmptyMap)
        candidate_first_block == ResolveFirstBlock(Get(stats, candidate_hotkey, EmptyMap), envs, 1)
        target_first_block == ResolveFirstBlock(Get(stats, target_hotkey, EmptyMap), envs, 1)
    IN  IF DOMAIN candidate_scores = {} \/ DOMAIN target_scores = {} THEN FALSE
        ELSE IF candidate_first_block = 0 \/ target_first_block = 0
             THEN SimpleComparison(candidate_scores, target_scores, envs)
        ELSE IF candidate_first_block < target_first_block
             THEN ThresholdComparison(TRUE, candidate_scores, target_scores, envs)
        ELSE IF target_first_block < candidate_first_block
             THEN ThresholdComparison(FALSE, target_scores, candidate_scores, envs)
        ELSE SimpleComparison(candidate_scores, target_scores, envs)

(***************************************************************************)
(* _reconstruct_stats_from_api_scores.  A score entry is                   *)
(*   [miner_hotkey, first_block, envs_ok, scores_by_env, overall_score,    *)
(*    model]                                                               *)
(* where envs_ok = FALSE stands for an entry whose scores_by_env is not a  *)
(* mapping (JSON null): scores_by_env.copy() then raises.  The result      *)
(* carries raised = TRUE when the function raised.                         *)
(* A stats record carries pos, the place of its key in the dict's          *)
(* insertion order, which get_first_block iterates in.                     *)
(***************************************************************************)
TotalProblems(sample_count, completeness) ==
    IF completeness > 0 THEN RoundDiv(sample_count * Milli, completeness)
    ELSE IF sample_count > 0 THEN sample_count ELSE 0

ReconInit(hotkeys) ==
    [raised |-> FALSE,
     stats |-> [h \in SeqRange(hotkeys) |-> EmptyMap],
     confidence_intervals |-> [h \in SeqRange(hotkeys) |-> EmptyMap],
     scores_by_env_map |-> [h \in SeqRange(hotkeys) |-> EmptyMap],
     completeness_map |-> [h \in SeqRange(hotkeys) |-> EmptyMap],
     thresholds_map |-> [h \in SeqRange(hotkeys) |-> EmptyMap],
     sample_counts_map |-> [h \in SeqRange(hotkeys) |-> EmptyMap],
     total_problems_map |-> [h \in SeqRange(hotkeys) |-> EmptyMap]]

\* old dict updated at the keys of S with F
Updated(old, S, F(_)) == [e \in (DOMAIN old) \cup S |-> IF e \in S THEN F(e) ELSE old[e]]

\* position of environment e in the tuple envs
EnvIndex(envs, e) == CHOOSE i \in 1..Len(envs) : envs[i] = e

\* where key e stands in the dict old after the keys of S were assigned in
\* the order of envs: a key already there keeps its place, new keys go to the end
InsertPos(old, S, envs, e) ==
    IF e \in DOMAIN old THEN old[e].pos
    ELSE Cardinality(DOMAIN old)
         + Cardinality({x \in S \ DOMAIN old : EnvIndex(envs, x) <= EnvIndex(envs, e)})

\* one iteration of "for score in scores_list"
ReconStep(acc, score, hotkeys, envs) ==
    IF acc.raised THEN acc
    ELSE IF score.miner_hotkey \notin SeqRange(hotkeys) THEN acc
    ELSE IF ~score.envs_ok THEN [acc EXCEPT !.raised = TRUE]
    ELSE
      LET hk == score.miner_hotkey
          sbe == score.scores_by_env
          present == {e \in SeqRange(envs) : e \in DOMAIN sbe}
          sampled == {e \in present : sbe[e].sample_count > 0}
      IN  [acc EXCEPT
             !.scores_by_env_map[hk] = sbe,
             !.stats[hk] = Updated(@, present, LAMBDA e :
                 [samples |-> sbe[e].sample_count,
                  total_score |-> IF sbe[e].sample_count > 0
                                  THEN sbe[e].score * sbe[e].sample_count ELSE 0,
                  first_block |-> score.first_block,
                  pos |-> InsertPos(acc.stats[hk], present, envs, e)]),
             !.confidence_intervals[hk] = Updated(@, sampled, LAMBDA e :
                 <<Max2(0, sbe[e].threshold), Min2(Milli, sbe[e].score)>>),
             !.completeness_map[hk] = Updated(@, present, LAMBDA e : sbe[e].completeness),
             !.thresholds_map[hk] = Updated(@, present, LAMBDA e : sbe[e].threshold),
             !.sample_counts_map[hk] = Updated(@, present, LAMBDA e : sbe[e].sample_count),
             !.total_problems_map[hk] = Updated(@, present, LAMBDA e :
                 TotalProblems(sbe[e].sample_count, sbe[e].completeness))]

RECURSIVE ReconLoop(_, _, _, _, _)
ReconLoop(acc, scores_list, i, hotkeys, envs) ==
    IF i > Len(scores_list) THEN acc
    ELSE ReconLoop(ReconStep(acc, scores_list[i], hotkeys, envs), scores_list, i + 1, hotkeys, envs)

ReconstructStats(scores_list, hotkeys, envs) ==
    ReconLoop(ReconInit(hotkeys), scores_list, 1, hotkeys, envs)

(***************************************************************************)
(* get_all_dominance_data: the synchronous parts of the rebuild            *)
(***************************************************************************)
\* the DominanceData returned on every short-circuit
EmptyData(current_block, hotkeys) ==
    [block |-> current_block,
     uids |-> <<>>,
     total_uids |-> Len(hotkeys),
     pareto_frontier_count |-> 0,
     dominated_count |-> 0]

\* ENVS: the registry's list, or the environments named in the scores data.
\* raised = TRUE when an entry without a scores_by_env mapping makes the
\* fallback loop raise.
ResolveEnvs(environments, scores_list) ==
    IF environments # <<>> THEN [raised |-> FALSE, envs |-> environments]
    ELSE IF \E i \in 1..Len(scores_list) : ~scores_list[i].envs_ok
         THEN [raised |-> TRUE, envs |-> <<>>]
    ELSE [raised |-> FALSE,
          envs |-> SortedSeq(UNION {DOMAIN scores_list[i].scores_by_env : i \in 1..Len(scores_list)})]

HasStatsData(stats) ==
    \E h \in DOMAIN stats : \E e \in DOMAIN stats[h] : stats[h][e].samples > 0

HasData(stats, hotkey, envs) ==
    \E e \in SeqRange(envs) : e \in DOMAIN stats[hotkey] /\ stats[hotkey][e].samples > 0

\* get_first_block: the first positive first_block over the values of the
\* miner's stats dict, in the dict's order; 0 for None
RECURSIVE FirstPositiveBlock(_, _, _)
FirstPositiveBlock(hk_stats, envs, i) ==
    IF i > Cardinality(DOMAIN hk_stats) THEN 0
    ELSE LET e == CHOOSE x \in DOMAIN hk_stats : hk_stats[x].pos = i
         IN  IF hk_stats[e].first_block > 0 THEN hk_stats[e].first_block
             ELSE FirstPositiveBlock(hk_stats, envs, i + 1)

GetFirstBlock(stats, hotkey, envs) == FirstPositiveBlock(stats[hotkey], envs, 1)

\* calculate_age_days, in seconds: age_days is this number divided by the
\* constant SECONDS_PER_DAY, which keeps order and equality
CalculateAge(stats, hotkey, envs, current_block) ==
    LET first_block == GetFirstBlock(stats, hotkey, envs)
    IN  IF first_block = 0 THEN 0
        ELSE (current_block - first_block) * BLOCK_TIME_SECONDS

MinCompleteness(scorer_config) ==
    IF scorer_config.is_dict /\ scorer_config.has_min THEN scorer_config.min_completeness
    ELSE DefaultMinCompleteness

IsActive(completeness_map, hotkey, min_completeness) ==
    \E e \in DOMAIN completeness_map[hotkey] : completeness_map[hotkey][e] >= min_completeness

\* scores[hotkey] = overall_score: the last entry of the hotkey wins
RECURSIVE OverallScore(_, _, _)
OverallScore(scores_list, hotkey, i) ==
    IF i = 0 THEN 0
    ELSE IF scores_list[i].miner_hotkey = hotkey THEN scores_list[i].overall_score
    ELSE OverallScore(scores_list, hotkey, i - 1)

\* model name from the scores data: the first entry of the hotkey naming a model
RECURSIVE ScoreModel(_, _, _)
ScoreModel(scores_list, hotkey, i) ==
    IF i > Len(scores_list) THEN 0
    ELSE IF scores_list[i].miner_hotkey = hotkey /\ scores_list[i].model # 0
         THEN scores_list[i].model
    ELSE ScoreModel(scores_list, hotkey, i + 1)

\* model_names.get(hotkey): the commitment's model, else the scores data's, 0 for None
ModelName(commitments, scores_list, hotkey) ==
    IF ~commitments.raises /\ hotkey \in DOMAIN commitments.names /\ commitments.names[hotkey] # 0
    THEN commitments.names[hotkey]
    ELSE ScoreModel(scores_list, hotkey, 1)

\* accuracies[hk][e] = total_score / samples
Accuracy(stats, hotkey, e) ==
    LET env_stats == Get(stats[hotkey], e, [samples |-> 0, total_score |-> 0])
    IN  IF env_stats.samples > 0 THEN env_stats.total_score \div env_stats.samples ELSE 0

\* mutant: the candidate loop without its age filter
IsCandidateAnyAge(candidate_uid, target_uid, hotkeys, envs, stats, current_block) ==
    /\ candidate_uid # target_uid
    /\ HasData(stats, hotkeys[candidate_uid + 1], envs)

\* mutant: the age filter is inverted, older candidates are skipped
IsCandidateYoungerOnly(candidate_uid, target_uid, hotkeys, envs, stats, current_block) ==
    /\ candidate_uid # target_uid
    /\ HasData(stats, hotkeys[candidate_uid + 1], envs)
    /\ ~(CalculateAge(stats, hotkeys[candidate_uid + 1], envs, current_block)
            > CalculateAge(stats, hotkeys[target_uid + 1], envs, current_block))

\* the skip conditions of the candidate loop, before _check_dominance is called
IsCandidate(candidate_uid, target_uid, hotkeys, envs, stats, current_block) ==
    /\ candidate_uid # target_uid
    /\ HasData(stats, hotkeys[candidate_uid + 1], envs)
    /\ ~(CalculateAge(stats, hotkeys[candidate_uid + 1], envs, current_block)
            < CalculateAge(stats, hotkeys[target_uid + 1], envs, current_block))

\* dominating_uids of a target with data
DominatingUids(target_uid, hotkeys, envs, recon, current_block) ==
    {c \in 0..(Len(hotkeys) - 1) :
        /\ IsCandidate(c, target_uid, hotkeys, envs, recon.stats, current_block)
        /\ CheckDominance(hotkeys[c + 1], hotkeys[target_uid + 1], envs,
                          recon.scores_by_env_map, recon.stats)}

\* mutant: dominated_by_count counts the active dominators only
UidStatusCountsActive(target_uid, hotkeys, envs, recon, scores_list, min_completeness, commitments, current_block) ==
    LET hk == hotkeys[target_uid + 1]
        has_data == HasData(recon.stats, hk, envs)
        dominating == IF has_data
                      THEN DominatingUids(target_uid, hotkeys, envs, recon, current_block)
                      ELSE {}
        active == {c \in dominating : IsActive(recon.completeness_map, hotkeys[c + 1], min_completeness)}
    IN  [uid |-> target_uid,
         hotkey |-> hk,
         is_dominated |-> dominating # {},
         dominating_uids |-> SortedSeq(dominating),
         dominated_by_count |-> Cardinality(active),
         dominating_active_count |-> Cardinality(active),
         dominating_non_active_count |-> Cardinality(dominating \ active),
         on_pareto_frontier |-> dominating = {},
         has_data |-> has_data,
         is_active |-> has_data /\ IsActive(recon.completeness_map, hk, min_completeness),
         age |-> CalculateAge(recon.stats, hk, envs, current_block),
         first_block |-> GetFirstBlock(recon.stats, hk, envs),
         points |-> IF has_data THEN OverallScore(scores_list, hk, Len(scores_list)) ELSE 0,
         env_scores |-> [e \in SeqRange(envs) |-> Accuracy(recon.stats, hk, e)],
         env_confidence_intervals |->
             [e \in SeqRange(envs) |-> Get(recon.confidence_intervals[hk], e, <<0, 0>>)],
         env_completeness |-> [e \in SeqRange(envs) |-> Get(recon.completeness_map[hk], e, Milli)],
         env_thresholds |-> [e \in SeqRange(envs) |-> Get(recon.thresholds_map[hk], e, 0)],
         env_sample_counts |-> [e \in SeqRange(envs) |-> Get(recon.sample_counts_map[hk], e, 0)],
         env_total_problems |-> [e \in SeqRange(envs) |-> Get(recon.total_problems_map[hk], e, 0)],
         model_name |-> ModelName(commitments, scores_list, hk)]

\* one UIDStatus
UidStatus(target_uid, hotkeys, envs, recon, scores_list, min_completeness, commitments, current_block) ==
    LET hk == hotkeys[target_uid + 1]
        has_data == HasData(recon.stats, hk, envs)
        dominating == IF has_data
                      THEN DominatingUids(target_uid, hotkeys, envs, recon, current_block)
                      ELSE {}
        active == {c \in dominating : IsActive(recon.completeness_map, hotkeys[c + 1], min_completeness)}
    IN  [uid |-> target_uid,
         hotkey |-> hk,
         is_dominated |-> dominating # {},
         dominating_uids |-> SortedSeq(dominating),
         dominated_by_count |-> Cardinality(dominating),
         dominating_active_count |-> Cardinality(active),
         dominating_non_active_count |-> Cardinality(dominating \ active),
         on_pareto_frontier |-> dominating = {},
         has_data |-> has_data,
         is_active |-> has_data /\ IsActive(recon.completeness_map, hk, min_completeness),
         age |-> CalculateAge(recon.stats, hk, envs, current_block),
         first_block |-> GetFirstBlock(recon.stats, hk, envs),
         points |-> IF has_data THEN OverallScore(scores_list, hk, Len(scores_list)) ELSE 0,
         env_scores |-> [e \in SeqRange(envs) |-> Accuracy(recon.stats, hk, e)],
         env_confidence_intervals |->
             [e \in SeqRange(envs) |-> Get(recon.confidence_intervals[hk], e, <<0, 0>>)],
         env_completeness |-> [e \in SeqRange(envs) |-> Get(recon.completeness_map[hk], e, Milli)],
         env_thresholds |-> [e \in SeqRange(envs) |-> Get(recon.thresholds_map[hk], e, 0)],
         env_sample_counts |-> [e \in SeqRange(envs) |-> Get(recon.sample_counts_map[hk], e, 0)],
         env_total_problems |-> [e \in SeqRange(envs) |-> Get(recon.total_problems_map[hk], e, 0)],
         model_name |-> ModelName(commitments, scores_list, hk)]

\* mutant: a miner without data is not put on the frontier
BuildDataFrontierNeedsData(hotkeys, envs, recon, scores_list, scorer_config, commitments, current_block) ==
    LET uid_statuses ==
            [i \in 1..Len(hotkeys) |->
                [UidStatus(i - 1, hotkeys, envs, recon, scores_list,
                           MinCompleteness(scorer_config), commitments, current_block)
                    EXCEPT !.on_pareto_frontier = @ /\ HasData(recon.stats, hotkeys[i], envs)]]
    IN  [block |-> current_block,
         uids |-> uid_statuses,
         total_uids |-> Len(hotkeys),
         pareto_frontier_count |->
             Cardinality({i \in 1..Len(hotkeys) :
                            uid_statuses[i].on_pareto_frontier /\ uid_statuses[i].has_data}),
         dominated_count |->
             Cardinality({i \in 1..Len(hotkeys) : uid_statuses[i].is_dominated})]

\* the DominanceData of a completed pass
BuildData(hotkeys, envs, recon, scores_list, scorer_config, commitments, current_block) ==
    LET uid_statuses ==
            [i \in 1..Len(hotkeys) |->
                UidStatus(i - 1, hotkeys, envs, recon, scores_list,
                          MinCompleteness(scorer_config), commitments, current_block)]
    IN  [block |-> current_block,
         uids |-> uid_statuses,
         total_uids |-> Len(hotkeys),
         pareto_frontier_count |->
             Cardinality({i \in 1..Len(hotkeys) :
                            uid_statuses[i].on_pareto_frontier /\ uid_statuses[i].has_data}),
         dominated_count |->
             Cardinality({i \in 1..Len(hotkeys) : uid_statuses[i].is_dominated})]

(***************************************************************************)
(* The external collaborators.  A world is what the chain and the API      *)
(* answer during one call:                                                 *)
(*   hotkeys      meta.hotkeys                                             *)
(*   scores       scores_data["scores"] of /scores/latest                  *)
(*   registry     the sorted names enabled for scoring                     *)
(*   config       /scores/weights/latest                                   *)
(*   commitments  get_all_revealed_commitments                             *)
(***************************************************************************)
EnvData(score, sample_count) ==
    [score |-> score, sample_count |-> sample_count, threshold |-> 0, completeness |-> Milli]

Entry(hotkey, first_block, scores_by_env) ==
    [miner_hotkey |-> hotkey, first_block |-> first_block, envs_ok |-> TRUE,
     scores_by_env |-> scores_by_env, overall_score |-> 0, model |-> 0]

\* an entry whose scores_by_env is null
NullEntry(hotkey, first_block) ==
    [miner_hotkey |-> hotkey, first_block |-> first_block, envs_ok |-> FALSE,
     scores_by_env |-> EmptyMap, overall_score |-> 0, model |-> 0]

DefaultConfig == [is_dict |-> TRUE, has_min |-> FALSE, min_completeness |-> 0]

NoCommitments == [raises |-> FALSE, names |-> EmptyMap]

\* everything one call reads from its collaborators: chain_ok = FALSE when
\* get_subtensor / st.metagraph raises, feed is the kind of answer of
\* /scores/latest, environments = <<>> when the registry fails or enables
\* nothing, config_raises = TRUE when /scores/weights/latest raises
CallInput(chain_ok, hotkeys, current_block, feed, scores, environments, config_raises, config, commitments) ==
    [chain_ok |-> chain_ok, hotkeys |-> hotkeys, current_block |-> current_block, feed |-> feed,
     scores |-> scores,
     environments |-> environments, config_raises |-> config_raises, config |-> config,
     commitments |-> commitments]

\* lines 461-553: TRUE when the call returns the empty DominanceData
ShortCircuits(in) ==
    \/ in.feed # "ok"
    \/ in.config_raises
    \/ ResolveEnvs(in.environments, in.scores).raised
    \/ LET envs == ResolveEnvs(in.environments, in.scores).envs
           recon == ReconstructStats(in.scores, in.hotkeys, envs)
       IN  recon.raised \/ ~HasStatsData(recon.stats) \/ envs = <<>>

\* the DominanceData a call computes once it is past the cache lookup
Rebuild(in) ==
    IF ShortCircuits(in) THEN EmptyData(in.current_block, in.hotkeys)
    ELSE LET envs == ResolveEnvs(in.environments, in.scores).envs
         IN  BuildData(in.hotkeys, envs, ReconstructStats(in.scores, in.hotkeys, envs),
                       in.scores, in.config, in.commitments, in.current_block)

(***************************************************************************)
(* Bounds of the model                                                     *)
(***************************************************************************)
\* concurrent callers of get_all_dominance_data
NumCallers == 2
\* chain height when the model starts
StartBlock == 300
\* how many blocks the chain advances
MaxTicks == 1
\* block keys below BaseKey + 1 are never cached at the start
BaseKey == 290

Callers == 1..NumCallers

\* the block argument of a call: 0 stands for None (use the current block)
BlockArgs == {0, BaseKey}

Scenario1Scores ==
    <<Entry(1, 100, 1 :> EnvData(800, 50)), Entry(2, 200, 1 :> EnvData(830, 50))>>

Scenario2Scores ==
    <<Entry(1, 100, 1 :> EnvData(800, 50)), Entry(2, 200, 1 :> EnvData(850, 50))>>

World(hotkeys, scores, registry, commitments) ==
    [hotkeys |-> hotkeys, scores |-> scores, registry |-> registry,
     config |-> DefaultConfig, commitments |-> commitments]

\* the worlds a call of the cache model may see
Worlds ==
    <<World(<<1, 2>>, Scenario1Scores, <<1>>, NoCommitments),
      World(<<1, 2>>, Scenario2Scores, <<1>>, NoCommitments)>>

(***************************************************************************)
(* The snapshot cache (_cache) and its operations                          *)
(***************************************************************************)
\* mutant: the insert is lost
CachePutLost(c, k, v) == c

\* _cache[k] = v
CachePut(c, k, v) == [x \in (DOMAIN c) \cup {k} |-> IF x = k THEN v ELSE c[x]]

\* del _cache[k]
CacheDel(c, k) == [x \in (DOMAIN c) \ {k} |-> c[x]]

\* mutant: the size test is off by one
BoundCacheOffByOne(c) ==
    IF Cardinality(DOMAIN c) > CacheLimit + 1 THEN CacheDel(c, SetMin(DOMAIN c)) ELSE c

\* mutant: the size bound removes the largest key
BoundCacheEvictsLargest(c) ==
    IF Cardinality(DOMAIN c) > CacheLimit
    THEN CacheDel(c, CHOOSE x \in DOMAIN c : \A y \in DOMAIN c : y <= x)
    ELSE c

\* "keep only last 10 blocks": one removal of the smallest key when over the limit
BoundCache(c) ==
    IF Cardinality(DOMAIN c) > CacheLimit THEN CacheDel(c, SetMin(DOMAIN c)) ELSE c

(***************************************************************************)
(* State                                                                   *)
(***************************************************************************)
VARIABLES
    cache,      \* _cache: block key -> DominanceData
    lock,       \* holder of _cache_lock, 0 when free
    chain,      \* the chain's current block
    pc,         \* where each caller is in get_all_dominance_data
    call,       \* the arguments and locals of each caller's call
    result,     \* the DominanceData each caller's call has built or returned
    prev,       \* history: the call that returned last (sequential clients only)
    input,      \* the collaborators' answers of a rebuild on its own
    output      \* what that rebuild returned

vars == <<cache, lock, chain, pc, call, result, prev, input, output>>

NoResult ==
    [block |-> -1, uids |-> <<>>, total_uids |-> 0, pareto_frontier_count |-> 0,
     dominated_count |-> 0]

IdleCall == [block |-> 0, refresh |-> FALSE, current_block |-> 0, rebuilt |-> FALSE]

NoPrev == [valid |-> FALSE, key |-> 0, refresh |-> FALSE, result |-> NoResult, cached |-> FALSE]

NoInput == CallInput(FALSE, <<>>, 0, "raise", <<>>, <<>>, FALSE, DefaultConfig, NoCommitments)

NoOutput == [done |-> FALSE, raised |-> FALSE, data |-> NoResult]

\* cache_block = block if block is not None else current_block
CacheBlock(c) == IF call[c].block # 0 THEN call[c].block ELSE call[c].current_block

\* what the synchronous code of a call reads in world w
WorldInput(w, current_block, feed, envs_ok, config_ok, commitments_ok) ==
    CallInput(TRUE, Worlds[w].hotkeys, current_block, feed, Worlds[w].scores,
              IF envs_ok THEN Worlds[w].registry ELSE <<>>,
              ~config_ok, Worlds[w].config,
              IF commitments_ok THEN Worlds[w].commitments
              ELSE [raises |-> TRUE, names |-> EmptyMap])

\* the outcomes of client.get("/scores/latest?top=256"): usable data, an
\* exception, a success=False answer, no block_number
FeedKinds == {"ok", "raise", "error", "noblock"}

\* Rebuild and ShortCircuits over the worlds and blocks of the model, computed once
RebuildTable ==
    [w \in 1..Len(Worlds), b \in StartBlock..(StartBlock + MaxTicks), feed \in FeedKinds,
     envs_ok \in BOOLEAN, config_ok \in BOOLEAN, commitments_ok \in BOOLEAN |->
        LET in == WorldInput(w, b, feed, envs_ok, config_ok, commitments_ok)
        IN  [empty |-> ShortCircuits(in), data |-> Rebuild(in)]]

\* a snapshot the program has built for the first world at the start block
StartSnapshot == RebuildTable[1, StartBlock, "ok", TRUE, TRUE, TRUE].data

\* caches left by earlier calls with explicit block arguments
InitCaches ==
    {[k \in (BaseKey + 1)..(BaseKey + n) |-> StartSnapshot] : n \in {0, CacheLimit}}

Init ==
    /\ cache \in InitCaches
    /\ lock = 0
    /\ chain = StartBlock
    /\ pc = [c \in Callers |-> "idle"]
    /\ call = [c \in Callers |-> IdleCall]
    /\ result = [c \in Callers |-> NoResult]
    /\ prev = NoPrev
    /\ input = NoInput
    /\ output = NoOutput

(***************************************************************************)
(* get_all_dominance_data.  The awaits on the collaborators touch no       *)
(* shared state, so the stretch from the cache lookup to the finished      *)
(* DominanceData is one action; the two sections under _cache_lock are     *)
(* each an acquire step and a body.                                        *)
(***************************************************************************)
\* a route handler calls get_all_dominance_data(block, refresh); the
\* metagraph answers: current_block = meta.block
Start(c) ==
    /\ pc[c] = "idle"
    /\ \E b \in BlockArgs, r \in BOOLEAN :
          call' = [call EXCEPT ![c] =
                      [IdleCall EXCEPT !.block = b, !.refresh = r, !.current_block = chain]]
    /\ pc' = [pc EXCEPT ![c] = "lookup"]
    /\ UNCHANGED <<cache, lock, chain, result, prev, input, output>>

\* get_subtensor / st.metagraph raises: nothing catches it
StartFails(c) ==
    /\ pc[c] = "idle"
    /\ \E b \in BlockArgs, r \in BOOLEAN :
          call' = [call EXCEPT ![c] = [IdleCall EXCEPT !.block = b, !.refresh = r]]
    /\ pc' = [pc EXCEPT ![c] = "raised"]
    /\ UNCHANGED <<cache, lock, chain, result, prev, input, output>>

\* async with _cache_lock (before the lookup or the refresh eviction)
AcquireLookup(c) ==
    /\ pc[c] = "lookup"
    /\ lock = 0
    /\ lock' = c
    /\ pc' = [pc EXCEPT ![c] = "inlookup"]
    /\ UNCHANGED <<cache, chain, call, result, prev, input, output>>

\* mutant: the lookup sits in the refresh branch
IsCachedInverted(c_cache, cache_block, refresh) == refresh /\ cache_block \in DOMAIN c_cache

\* "if not refresh: ... if cache_block in _cache"
IsCached(c_cache, cache_block, refresh) == ~refresh /\ cache_block \in DOMAIN c_cache

\* not refresh, key cached: return _cache[cache_block]
CacheHit(c) ==
    /\ pc[c] = "inlookup"
    /\ lock = c
    /\ IsCached(cache, CacheBlock(c), call[c].refresh)
    /\ result' = [result EXCEPT ![c] = cache[CacheBlock(c)]]
    /\ pc' = [pc EXCEPT ![c] = "done"]
    /\ lock' = 0
    /\ UNCHANGED <<cache, chain, call, prev, input, output>>

\* mutant: the miss leaves the lookup without releasing _cache_lock
CacheMissKeepsLock(c) ==
    /\ pc[c] = "inlookup"
    /\ lock = c
    /\ ~call[c].refresh
    /\ CacheBlock(c) \notin DOMAIN cache
    /\ call' = [call EXCEPT ![c].rebuilt = TRUE]
    /\ pc' = [pc EXCEPT ![c] = "rebuild"]
    /\ UNCHANGED <<cache, lock, chain, result, prev, input, output>>

\* not refresh, key not cached: go on to the rebuild
CacheMiss(c) ==
    /\ pc[c] = "inlookup"
    /\ lock = c
    /\ ~call[c].refresh
    /\ ~IsCached(cache, CacheBlock(c), call[c].refresh)
    /\ call' = [call EXCEPT ![c].rebuilt = TRUE]
    /\ pc' = [pc EXCEPT ![c] = "rebuild"]
    /\ lock' = 0
    /\ UNCHANGED <<cache, chain, result, prev, input, output>>

\* mutant: the refresh branch forgets the del
RefreshKeeps(c_cache, cache_block) == c_cache

\* mutant: the refresh branch clears the whole cache
RefreshClearsAll(c_cache, cache_block) == EmptyMap

\* the cache after the branch "else" of "if not refresh"
RefreshCleared(c_cache, cache_block) ==
    IF cache_block \in DOMAIN c_cache THEN CacheDel(c_cache, cache_block) ELSE c_cache

\* refresh: del _cache[cache_block] if present, then go on to the rebuild
RefreshEvict(c) ==
    /\ pc[c] = "inlookup"
    /\ lock = c
    /\ call[c].refresh
    /\ cache' = RefreshCleared(cache, CacheBlock(c))
    /\ call' = [call EXCEPT ![c].rebuilt = TRUE]
    /\ pc' = [pc EXCEPT ![c] = "rebuild"]
    /\ lock' = 0
    /\ UNCHANGED <<chain, result, prev, input, output>>

\* mutant: the empty DominanceData goes on to the insert
RebuildEmptyPublishes(c) ==
    /\ pc[c] = "rebuild"
    /\ \E w \in 1..Len(Worlds), feed \in FeedKinds, envs_ok \in BOOLEAN, config_ok \in BOOLEAN :
          LET r == RebuildTable[w, call[c].current_block, feed, envs_ok, config_ok, TRUE]
          IN  /\ r.empty
              /\ result' = [result EXCEPT ![c] = r.data]
    /\ pc' = [pc EXCEPT ![c] = "insert"]
    /\ UNCHANGED <<cache, lock, chain, call, prev, input, output>>

\* the fetches and the reconstruction end in one of the "return
\* DominanceData(uids=[])" exits: nothing is cached
RebuildEmpty(c) ==
    /\ pc[c] = "rebuild"
    /\ \E w \in 1..Len(Worlds), feed \in FeedKinds, envs_ok \in BOOLEAN, config_ok \in BOOLEAN :
          LET r == RebuildTable[w, call[c].current_block, feed, envs_ok, config_ok, TRUE]
          IN  /\ r.empty
              /\ result' = [result EXCEPT ![c] = r.data]
    /\ pc' = [pc EXCEPT ![c] = "done"]
    /\ UNCHANGED <<cache, lock, chain, call, prev, input, output>>

\* the fetches succeed (the environment registry and the commitments may
\* fail: both failures are swallowed) and the whole dominance pass runs
RebuildFull(c) ==
    /\ pc[c] = "rebuild"
    /\ \E w \in 1..Len(Worlds), envs_ok \in BOOLEAN, commitments_ok \in BOOLEAN :
          LET r == RebuildTable[w, call[c].current_block, "ok", envs_ok, TRUE, commitments_ok]
          IN  /\ ~r.empty
              /\ result' = [result EXCEPT ![c] = r.data]
    /\ pc' = [pc EXCEPT ![c] = "insert"]
    /\ UNCHANGED <<cache, lock, chain, call, prev, input, output>>

\* async with _cache_lock (before the insert)
AcquireInsert(c) ==
    /\ pc[c] = "insert"
    /\ lock = 0
    /\ lock' = c
    /\ pc' = [pc EXCEPT ![c] = "ininsert"]
    /\ UNCHANGED <<cache, chain, call, result, prev, input, output>>

\* _cache[cache_block] = result, then the size bound
InsertAndBound(c) ==
    /\ pc[c] = "ininsert"
    /\ lock = c
    /\ cache' = BoundCache(CachePut(cache, CacheBlock(c), result[c]))
    /\ lock' = 0
    /\ pc' = [pc EXCEPT ![c] = "done"]
    /\ UNCHANGED <<chain, call, result, prev, input, output>>

\* the caller has its answer or its exception; it may call again
Return(c) ==
    /\ pc[c] \in {"done", "raised"}
    /\ pc' = [pc EXCEPT ![c] = "idle"]
    /\ call' = [call EXCEPT ![c] = IdleCall]
    /\ result' = [result EXCEPT ![c] = NoResult]
    /\ UNCHANGED <<cache, lock, chain, prev, input, output>>

\* the chain produces a block
Tick ==
    /\ chain < StartBlock + MaxTicks
    /\ chain' = chain + 1
    /\ UNCHANGED <<cache, lock, pc, call, result, prev, input, output>>

Step(c) ==
    \/ Start(c) \/ StartFails(c)
    \/ AcquireLookup(c) \/ CacheHit(c) \/ CacheMiss(c) \/ RefreshEvict(c)
    \/ RebuildEmpty(c) \/ RebuildFull(c)
    \/ AcquireInsert(c) \/ InsertAndBound(c)

Next ==
    \/ \E c \in Callers : Step(c) \/ Return(c)
    \/ Tick

\* concurrent callers on one event loop
Spec == Init /\ [][Next]_vars

(***************************************************************************)
(* A sequential client: one caller, one call after the other.  The         *)
(* history variable prev keeps what the previous call returned.            *)
(***************************************************************************)
ReturnRecorded(c) ==
    /\ pc[c] \in {"done", "raised"}
    /\ prev' = IF pc[c] = "done"
               THEN [valid |-> TRUE, key |-> CacheBlock(c), refresh |-> call[c].refresh,
                     result |-> result[c], cached |-> CacheBlock(c) \in DOMAIN cache]
               ELSE NoPrev
    /\ pc' = [pc EXCEPT ![c] = "idle"]
    /\ call' = [call EXCEPT ![c] = IdleCall]
    /\ result' = [result EXCEPT ![c] = NoResult]
    /\ UNCHANGED <<cache, lock, chain, input, output>>

NextSeq == Step(1) \/ ReturnRecorded(1) \/ Tick

SpecSeq == Init /\ [][NextSeq]_vars

(***************************************************************************)
(* Two callers racing, one call each.  Two history variables keep what     *)
(* the calls did: prev is the sequence of the events "start" (the call     *)
(* began and read the metagraph) and "fetch" (its rebuild read the score   *)
(* feed and the other collaborators) in the order they happened, and       *)
(* input maps each caller to the answers its rebuild worked on.            *)
(***************************************************************************)
Event(kind, c) == [kind |-> kind, caller |-> c]

\* event e1 happened, and before event e2 did
Before(e1, e2) ==
    \E i, j \in 1..Len(prev) : i < j /\ prev[i] = e1 /\ prev[j] = e2

InitRace ==
    /\ cache \in InitCaches
    /\ lock = 0
    /\ chain = StartBlock
    /\ pc = [c \in Callers |-> "idle"]
    /\ call = [c \in Callers |-> IdleCall]
    /\ result = [c \in Callers |-> NoResult]
    /\ prev = <<>>
    /\ input = [c \in Callers |-> NoInput]
    /\ output = NoOutput

\* Start(c), recorded
StartRecorded(c) ==
    /\ pc[c] = "idle"
    /\ Event("start", c) \notin SeqRange(prev)
    /\ \E b \in BlockArgs, r \in BOOLEAN :
          call' = [call EXCEPT ![c] =
                      [IdleCall EXCEPT !.block = b, !.refresh = r, !.current_block = chain]]
    /\ pc' = [pc EXCEPT ![c] = "lookup"]
    /\ prev' = Append(prev, Event("start", c))
    /\ UNCHANGED <<cache, lock, chain, result, input, output>>

\* RebuildEmpty(c), recorded
RebuildEmptyRecorded(c) ==
    /\ pc[c] = "rebuild"
    /\ \E w \in 1..Len(Worlds), feed \in FeedKinds, envs_ok \in BOOLEAN, config_ok \in BOOLEAN :
          LET r == RebuildTable[w, call[c].current_block, feed, envs_ok, config_ok, TRUE]
          IN  /\ r.empty
              /\ result' = [result EXCEPT ![c] = r.data]
              /\ input' = [input EXCEPT ![c] =
                              WorldInput(w, call[c].current_block, feed, envs_ok, config_ok, TRUE)]
    /\ pc' = [pc EXCEPT ![c] = "done"]
    /\ prev' = Append(prev, Event("fetch", c))
    /\ UNCHANGED <<cache, lock, chain, call, output>>

\* RebuildFull(c), recorded
RebuildFullRecorded(c) ==
    /\ pc[c] = "rebuild"
    /\ \E w \in 1..Len(Worlds), envs_ok \in BOOLEAN, commitments_ok \in BOOLEAN :
          LET r == RebuildTable[w, call[c].current_block, "ok", envs_ok, TRUE, commitments_ok]
          IN  /\ ~r.empty
              /\ result' = [result EXCEPT ![c] = r.data]
              /\ input' = [input EXCEPT ![c] =
                              WorldInput(w, call[c].current_block, "ok", envs_ok, TRUE, commitments_ok)]
    /\ pc' = [pc EXCEPT ![c] = "insert"]
    /\ prev' = Append(prev, Event("fetch", c))
    /\ UNCHANGED <<cache, lock, chain, call, output>>

StepRace(c) ==
    \/ StartRecorded(c)
    \/ AcquireLookup(c) \/ CacheHit(c) \/ CacheMiss(c) \/ RefreshEvict(c)
    \/ RebuildEmptyRecorded(c) \/ RebuildFullRecorded(c)
    \/ AcquireInsert(c) \/ InsertAndBound(c)

NextRace ==
    \/ \E c \in Callers : StepRace(c)
    \/ Tick

SpecRace == InitRace /\ [][NextRace]_vars

(***************************************************************************)
(* One call of get_all_dominance_data past the cache lookup, on its own:   *)
(* the collaborators' answers are drawn from a grid, the call is one step. *)
(***************************************************************************)
\* miners of the population
MaxMiners == 2
\* environment names
MaxEnvs == 2

FirstBlocks == {0, 100, 200}

ScoreGrid == {800, 830, 850}

\* what one environment of one score entry can hold
EnvChoices == {EnvData(0, 0)} \cup {EnvData(s, 50) : s \in ScoreGrid}

\* the scores_by_env of an entry: a mapping on some of the environments
EnvMaps == UNION {[S -> EnvChoices] : S \in SUBSET (1..MaxEnvs)}

\* the entries the feed can hold for a hotkey: none, a null one, a good one
EntryChoices(h) ==
    {<<>>} \cup {<<NullEntry(h, 100)>>}
           \cup {<<Entry(h, fb, m)>> : fb \in FirstBlocks, m \in EnvMaps}

\* scores lists: at most one entry per hotkey, in hotkey order
RECURSIVE ScoreLists(_)
ScoreLists(h) ==
    IF h = 0 THEN {<<>>}
    ELSE {rest \o e : rest \in ScoreLists(h - 1), e \in EntryChoices(h)}

Registries == {<<>>} \cup {[i \in 1..n |-> i] : n \in 1..MaxEnvs}

GridHotkeys == [i \in 1..MaxMiners |-> i]

\* which collaborator fails, if any (a failing registry is environments = <<>>)
FailureModes == {"none", "chain", "feed_raise", "feed_error", "feed_noblock", "config", "commitments"}

GridInput(scores, registry, mode) ==
    CallInput(mode # "chain", GridHotkeys, StartBlock,
              CASE mode = "feed_raise" -> "raise"
                [] mode = "feed_error" -> "error"
                [] mode = "feed_noblock" -> "noblock"
                [] OTHER -> "ok",
              scores, registry, mode = "config", DefaultConfig,
              IF mode = "commitments" THEN [raises |-> TRUE, names |-> EmptyMap]
              ELSE [raises |-> FALSE, names |-> 1 :> 7])

\* get_all_dominance_data on a cache miss, as a function of the answers
GetAllDominanceData(in) ==
    IF ~in.chain_ok THEN [done |-> TRUE, raised |-> TRUE, data |-> NoResult]
    ELSE [done |-> TRUE, raised |-> FALSE, data |-> Rebuild(in)]

InitBuild ==
    /\ cache = EmptyMap
    /\ lock = 0
    /\ chain = StartBlock
    /\ pc = [c \in Callers |-> "idle"]
    /\ call = [c \in Callers |-> IdleCall]
    /\ result = [c \in Callers |-> NoResult]
    /\ prev = NoPrev
    /\ \E scores \in ScoreLists(MaxMiners), registry \in Registries, mode \in FailureModes :
          /\ mode = "none" \/ registry = <<1>>
          /\ input = GridInput(scores, registry, mode)
    /\ output = NoOutput

RunCall ==
    /\ ~output.done
    /\ output' = GetAllDominanceData(input)
    /\ UNCHANGED <<cache, lock, chain, pc, call, result, prev, input>>

SpecBuild == InitBuild /\ [][RunCall]_vars

(***************************************************************************)
(* _check_dominance on its own: three miners, the scores_by_env_map and    *)
(* the stats drawn independently of each other, the relation computed in   *)
(* one step.                                                               *)
(***************************************************************************)
\* miners handed to the evaluator
EvalMiners == 3

EvalFirstBlocks == {0, 100, 200, 300}

EvalHotkeys == 1..EvalMiners

EvalEnvs == [i \in 1..MaxEnvs |-> i]

\* the stats of one miner as the evaluator reads them: a first_block per environment
EvalStats ==
    {[e \in 1..MaxEnvs |-> [samples |-> 0, total_score |-> 0, first_block |-> fb]] :
        fb \in EvalFirstBlocks}

\* _check_dominance for every ordered pair of hotkeys
DominanceRelation(envs, scores_by_env_map, stats) ==
    [a \in EvalHotkeys, b \in EvalHotkeys |-> CheckDominance(a, b, envs, scores_by_env_map, stats)]

InitEval ==
    /\ cache = EmptyMap
    /\ lock = 0
    /\ chain = StartBlock
    /\ pc = [c \in Callers |-> "idle"]
    /\ call = [c \in Callers |-> IdleCall]
    /\ result = [c \in Callers |-> NoResult]
    /\ prev = NoPrev
    /\ \E sbe \in [EvalHotkeys -> EnvMaps], st \in [EvalHotkeys -> EvalStats] :
          input = [envs |-> EvalEnvs, scores_by_env_map |-> sbe, stats |-> st]
    /\ output = NoOutput

RunEval ==
    /\ ~output.done
    /\ output' = [done |-> TRUE,
                  dominates |-> DominanceRelation(input.envs, input.scores_by_env_map, input.stats)]
    /\ UNCHANGED <<cache, lock, chain, pc, call, result, prev, input>>

SpecEval == InitEval /\ [][RunEval]_vars

(***************************************************************************)
(* _calculate_required_score on its own, for every prior score of the      *)
(* grid of thousandths.                                                    *)
(***************************************************************************)
InitRequired ==
    /\ cache = EmptyMap
    /\ lock = 0
    /\ chain = StartBlock
    /\ pc = [c \in Callers |-> "idle"]
    /\ call = [c \in Callers |-> IdleCall]
    /\ result = [c \in Callers |-> NoResult]
    /\ prev = NoPrev
    /\ \E p \in 0..Milli : input = [prior_score |-> p]
    /\ output = NoOutput

RunRequired ==
    /\ ~output.done
    /\ output' = [done |-> TRUE, required |-> CalculateRequiredScore(input.prior_score)]
    /\ UNCHANGED <<cache, lock, chain, pc, call, result, prev, input>>

SpecRequired == InitRequired /\ [][RunRequired]_vars

(***************************************************************************)
(* One call for a population of one miner with one score entry on one      *)
(* environment, the entry's numbers drawn from a grid: what the            *)
(* reconstructor makes of the feed's numbers and the snapshot reports.     *)
(***************************************************************************)
\* scores and thresholds of the feed, in thousandths
UnitGrid == {0, 250, 500, 750, Milli}

CompletenessGrid == {0, 500, 950, Milli}

SampleGrid == {0, 1, 50}

\* a score entry with all four numbers of its environment given
FullEntry(hotkey, first_block, score, sample_count, threshold, completeness) ==
    [miner_hotkey |-> hotkey, first_block |-> first_block, envs_ok |-> TRUE,
     scores_by_env |-> 1 :> [score |-> score, sample_count |-> sample_count,
                             threshold |-> threshold, completeness |-> completeness],
     overall_score |-> 0, model |-> 0]

InitRecon ==
    /\ cache = EmptyMap
    /\ lock = 0
    /\ chain = StartBlock
    /\ pc = [c \in Callers |-> "idle"]
    /\ call = [c \in Callers |-> IdleCall]
    /\ result = [c \in Callers |-> NoResult]
    /\ prev = NoPrev
    /\ \E score \in UnitGrid, threshold \in UnitGrid, n \in SampleGrid, completeness \in CompletenessGrid :
          input = CallInput(TRUE, <<1>>, StartBlock, "ok",
                            <<FullEntry(1, 100, score, n, threshold, completeness)>>,
                            <<1>>, FALSE, DefaultConfig, NoCommitments)
    /\ output = NoOutput

SpecRecon == InitRecon /\ [][RunCall]_vars

(***************************************************************************)
(* One call whose score feed may hold two entries for the first hotkey:    *)
(* the later entry replaces the scores_by_env of the earlier one, and the  *)
(* stats keep, per environment, the first_block of the entry that wrote    *)
(* the environment last.                                                   *)
(***************************************************************************)
OrderFirstBlocks == {100, 150, 200}

OrderScores == {800, 850}

\* scores_by_env of an entry: samples in some of the environments, one score
OrderEnvMaps ==
    {[e \in S |-> EnvData(score, 50)] : S \in (SUBSET (1..MaxEnvs)) \ {{}}, score \in OrderScores}

OrderEntries(h) == {Entry(h, fb, m) : fb \in OrderFirstBlocks, m \in OrderEnvMaps}

InitOrder ==
    /\ cache = EmptyMap
    /\ lock = 0
    /\ chain = StartBlock
    /\ pc = [c \in Callers |-> "idle"]
    /\ call = [c \in Callers |-> IdleCall]
    /\ result = [c \in Callers |-> NoResult]
    /\ prev = NoPrev
    /\ \E first \in OrderEntries(1), again \in {<<>>} \cup {<<e>> : e \in OrderEntries(1)},
          second \in OrderEntries(2) :
          input = CallInput(TRUE, <<1, 2>>, StartBlock, "ok", <<first>> \o again \o <<second>>,
                            EvalEnvs, FALSE, DefaultConfig, NoCommitments)
    /\ output = NoOutput

SpecOrder == InitOrder /\ [][RunCall]_vars

(***************************************************************************)
(* One call for two miners on one environment whose entries differ in      *)
(* completeness, under the default and under a configured                  *)
(* min_completeness: dominators are active or non-active.                  *)
(***************************************************************************)
ActiveConfigs == {DefaultConfig, [is_dict |-> TRUE, has_min |-> TRUE, min_completeness |-> 500]}

ActiveEntries(h) ==
    {FullEntry(h, fb, score, 50, 0, completeness) :
        fb \in {100, 200}, score \in ScoreGrid, completeness \in CompletenessGrid}

InitActive ==
    /\ cache = EmptyMap
    /\ lock = 0
    /\ chain = StartBlock
    /\ pc = [c \in Callers |-> "idle"]
    /\ call = [c \in Callers |-> IdleCall]
    /\ result = [c \in Callers |-> NoResult]
    /\ prev = NoPrev
    /\ \E first \in ActiveEntries(1), second \in ActiveEntries(2), config \in ActiveConfigs :
          input = CallInput(TRUE, <<1, 2>>, StartBlock, "ok", <<first, second>>,
                            <<1>>, FALSE, config, NoCommitments)
    /\ output = NoOutput

SpecActive == InitActive /\ [][RunCall]_vars

(***************************************************************************)
(* One call for three miners on three environments, one score entry per    *)
(* miner, each entry with samples in some of the environments.             *)
(***************************************************************************)
\* miners of the population
FrontierMiners == 3
\* environment names
FrontierEnvs == 3

FrontierScores == {500, 900}

FrontierFirstBlocks == {100, 200}

\* scores_by_env of an entry: 50 samples in some, not all, of the environments
FrontierEnvMaps ==
    UNION {[S -> {EnvData(score, 50) : score \in FrontierScores}] :
              S \in (SUBSET (1..FrontierEnvs)) \ {1..FrontierEnvs}}

FrontierEntries(h) == {Entry(h, fb, m) : fb \in FrontierFirstBlocks, m \in FrontierEnvMaps}

InitFrontier ==
    /\ cache = EmptyMap
    /\ lock = 0
    /\ chain = StartBlock
    /\ pc = [c \in Callers |-> "idle"]
    /\ call = [c \in Callers |-> IdleCall]
    /\ result = [c \in Callers |-> NoResult]
    /\ prev = NoPrev
    /\ \E scores \in [1..FrontierMiners -> UNION {FrontierEntries(h) : h \in 1..FrontierMiners}] :
          /\ \A h \in 1..FrontierMiners : scores[h].miner_hotkey = h
          /\ input = CallInput(TRUE, [h \in 1..FrontierMiners |-> h], StartBlock, "ok", scores,
                               [e \in 1..FrontierEnvs |-> e], FALSE, DefaultConfig, NoCommitments)
    /\ output = NoOutput

SpecFrontier == InitFrontier /\ [][RunCall]_vars

(***************************************************************************)
(* Properties                                                              *)
(***************************************************************************)
\* the call ran with all collaborators answering, one environment, and the
\* two score entries of the scenarios: a (first_block 100, 50 samples,
\* accuracy 0.80) and b (first_block 200, 50 samples, accuracy accB)
Scenario(in, a, b, accB) ==
    /\ in.chain_ok /\ in.feed = "ok" /\ ~in.config_raises /\ ~in.commitments.raises
    /\ in.environments = <<1>>
    /\ Len(in.hotkeys) = 2 /\ in.hotkeys[a] = a /\ in.hotkeys[b] = b /\ a # b
    /\ Len(in.scores) = 2
    /\ \E i, j \in 1..2 :
          /\ in.scores[i] = Entry(a, 100, 1 :> EnvData(800, 50))
          /\ in.scores[j] = Entry(b, 200, 1 :> EnvData(accB, 50))

\* the reconstruction the call works on
ReconOf(in) ==
    ReconstructStats(in.scores, in.hotkeys, ResolveEnvs(in.environments, in.scores).envs)

\* _check_dominance(candidate, target) on the call's data
Dominates(in, candidate, target) ==
    CheckDominance(candidate, target, ResolveEnvs(in.environments, in.scores).envs,
                   ReconOf(in).scores_by_env_map, ReconOf(in).stats)

\* C1 as stated: in Scenario 2 (B.accuracy = 0.85) B clears A's required
\* score 0.84, and in the snapshot A is dominated: B is in A's
\* dominating_uids and A is not on the Pareto frontier.
C1_Scenario2_AsStated ==
    \A a, b \in 1..2 :
        output.done /\ Scenario(input, a, b, 850) =>
            /\ ~output.raised
            /\ Len(output.data.uids) = 2
            /\ output.data.uids[a].is_dominated
            /\ (b - 1) \in SeqRange(output.data.uids[a].dominating_uids)
            /\ ~output.data.uids[a].on_pareto_frontier

\* C1 amended: in Scenario 2 B clears A's required score 0.84 and
\* _check_dominance(B, A) is true (and _check_dominance(A, B) false), but the
\* candidate loop of get_all_dominance_data skips B for target A because B is
\* younger: in the snapshot A and B both have empty dominating_uids, are not
\* dominated and are on the Pareto frontier.
C1_Scenario2 ==
    \A a, b \in 1..2 :
        output.done /\ Scenario(input, a, b, 850) =>
            /\ CalculateRequiredScore(800) = 840 * NanoPerMilli
            /\ LaterWins(800, 850)
            /\ Dominates(input, b, a)
            /\ ~Dominates(input, a, b)
            /\ ~output.raised
            /\ Len(output.data.uids) = 2
            /\ \A m \in {a, b} :
                  /\ output.data.uids[m].uid = m - 1
                  /\ output.data.uids[m].has_data
                  /\ ~output.data.uids[m].is_dominated
                  /\ output.data.uids[m].dominating_uids = <<>>
                  /\ output.data.uids[m].on_pareto_frontier
            /\ output.data.pareto_frontier_count = 2
            /\ output.data.dominated_count = 0

C1_Witness ==
    /\ output.done
    /\ \E a, b \in 1..2 : Scenario(input, a, b, 850) /\ output.data.uids[a].has_data

\* C2: in Scenario 1 (B.accuracy = 0.83) A's required score is 0.84, B does
\* not clear it, A dominates B; in the snapshot B is dominated by A and not on
\* the frontier, and A is on the frontier.
C2_Scenario1 ==
    \A a, b \in 1..2 :
        output.done /\ Scenario(input, a, b, 830) =>
            /\ CalculateRequiredScore(800) = 840 * NanoPerMilli
            /\ ~LaterWins(800, 830)
            /\ Dominates(input, a, b)
            /\ ~output.raised
            /\ Len(output.data.uids) = 2
            /\ output.data.uids[b].is_dominated
            /\ output.data.uids[b].dominating_uids = <<a - 1>>
            /\ ~output.data.uids[b].on_pareto_frontier
            /\ output.data.uids[a].on_pareto_frontier
            /\ ~output.data.uids[a].is_dominated

C2_Witness ==
    /\ output.done
    /\ \E a, b \in 1..2 : Scenario(input, a, b, 830) /\ output.data.uids[b].is_dominated

\* the second of two successive calls for one block key, both with
\* refresh=False, has reached this point
SecondCallAt(where) ==
    /\ pc[1] = where
    /\ prev.valid /\ prev.key = CacheBlock(1)
    /\ ~prev.refresh /\ ~call[1].refresh

\* C3 as stated: two successive calls (block key k, refresh=False) return
\* identical snapshots and the second is served from the cache without a
\* rebuild, whatever the cache held before.
C3_Idempotence_AsStated ==
    SecondCallAt("done") => result[1] = prev.result /\ ~call[1].rebuilt

\* C3 amended: of two successive calls (block key k, refresh=False), the
\* second returns the identical snapshot from the cache without a rebuild
\* when the first call left k in the cache; the first call leaves k out of
\* the cache only when its rebuild ended in the empty snapshot (which is
\* never cached) or k was at once evicted as the smallest key of a full
\* cache, and then the second call rebuilds again.
C3_Idempotence ==
    /\ SecondCallAt("done") /\ prev.cached => result[1] = prev.result /\ ~call[1].rebuilt
    /\ SecondCallAt("done") /\ ~prev.cached => call[1].rebuilt
    /\ SecondCallAt("lookup") /\ ~prev.cached =>
          \/ prev.result.uids = <<>>
          \/ /\ Cardinality(DOMAIN cache) = CacheLimit
             /\ prev.key < SetMin(DOMAIN cache)

\* the second call was served from the cache with a snapshot the first had built
C3_Witness ==
    /\ SecondCallAt("done") /\ prev.cached
    /\ result[1] = prev.result /\ result[1].uids # <<>> /\ result[1] # StartSnapshot

\* caller c takes a step of its own
Moves(c) == pc'[c] # pc[c]

\* C4: a call with refresh=False whose block key is in the cache returns
\* exactly the cached snapshot, runs no rebuild and leaves the cache map
\* unchanged.
C4_CacheHit ==
    [][\A c \in Callers :
          /\ pc[c] = "lookup" /\ ~call[c].refresh /\ Moves(c) => cache' = cache
          /\ pc[c] = "inlookup" /\ ~call[c].refresh /\ CacheBlock(c) \in DOMAIN cache /\ Moves(c) =>
                /\ pc'[c] = "done"
                /\ result'[c] = cache[CacheBlock(c)]
                /\ ~call'[c].rebuilt
                /\ cache' = cache]_vars

C4_Witness ==
    \E c \in Callers :
        /\ pc[c] = "done" /\ ~call[c].refresh /\ ~call[c].rebuilt
        /\ CacheBlock(c) \in DOMAIN cache /\ result[c] = cache[CacheBlock(c)]
        /\ result[c] # StartSnapshot

\* C5: a call with refresh=True removes any entry cached under its key (and
\* only that entry) before its rebuild starts, then always goes on to the
\* rebuild: what it returns is never taken from the cache.
C5_ForceRefresh ==
    [][\A c \in Callers :
          /\ pc[c] = "inlookup" /\ call[c].refresh /\ Moves(c) =>
                /\ pc'[c] = "rebuild"
                /\ CacheBlock(c) \notin DOMAIN cache'
                /\ DOMAIN cache' = (DOMAIN cache) \ {CacheBlock(c)}
                /\ \A k \in DOMAIN cache' : cache'[k] = cache[k]
          /\ pc'[c] = "rebuild" /\ Moves(c) => call'[c].rebuilt
          /\ pc'[c] = "done" /\ call'[c].refresh => call'[c].rebuilt]_vars

\* a refresh call is about to rebuild and the entry of its key is gone
C5_Witness ==
    \E c \in Callers :
        /\ pc[c] = "rebuild" /\ call[c].refresh
        /\ CacheBlock(c) = BaseKey + CacheLimit
        /\ (BaseKey + 1) \in DOMAIN cache
        /\ CacheBlock(c) \notin DOMAIN cache

\* C6: whenever no caller holds the cache lock, the cache holds at most 10
\* block keys, under any interleaving of concurrent calls.
C6_CacheBound == lock = 0 => Cardinality(DOMAIN cache) <= CacheLimit

\* both callers have inserted, an eviction has taken place, the cache is full
C6_Witness ==
    /\ lock = 0
    /\ Cardinality(DOMAIN cache) = CacheLimit
    /\ (BaseKey + 1) \notin DOMAIN cache
    /\ \A c \in Callers : pc[c] = "done" /\ call[c].rebuilt /\ result[c].uids # <<>>
    /\ \E c, d \in Callers : CacheBlock(c) # CacheBlock(d)

\* C7: when a rebuild inserts a key not yet present into a cache of 10 keys,
\* exactly one entry is removed, the one with the smallest of the 11 keys, and
\* 10 entries remain (the others unchanged, the new one holding the result
\* unless it is itself the smallest).
C7_EvictionVictim ==
    [][\A c \in Callers :
          /\ pc[c] = "ininsert" /\ Moves(c)
          /\ Cardinality(DOMAIN cache) = CacheLimit
          /\ CacheBlock(c) \notin DOMAIN cache
          => LET all == (DOMAIN cache) \cup {CacheBlock(c)}
                 victim == SetMin(all)
             IN  /\ DOMAIN cache' = all \ {victim}
                 /\ Cardinality(DOMAIN cache') = CacheLimit
                 /\ \A k \in DOMAIN cache' :
                       cache'[k] = IF k = CacheBlock(c) THEN result[c] ELSE cache[k]]_vars

\* a new largest key went in and the smallest key went out
C7_Witness ==
    \E c \in Callers :
        /\ pc[c] = "done" /\ call[c].rebuilt
        /\ CacheBlock(c) = StartBlock + 1
        /\ CacheBlock(c) \in DOMAIN cache /\ cache[CacheBlock(c)] = result[c]
        /\ (BaseKey + 1) \notin DOMAIN cache
        /\ (BaseKey + 2) \in DOMAIN cache
        /\ Cardinality(DOMAIN cache) = CacheLimit

\* the step is caller c's insert, and k is the key its size bound removes
BoundEvicts(c, k) ==
    /\ pc[c] = "ininsert" /\ Moves(c)
    /\ Cardinality((DOMAIN cache) \cup {CacheBlock(c)}) > CacheLimit
    /\ k = SetMin((DOMAIN cache) \cup {CacheBlock(c)})
    /\ k \notin DOMAIN cache'

\* C8 as stated: the value stored under a key never changes, and an entry
\* leaves the cache only through the size bound's removal of the smallest key.
C8_Immutable_AsStated ==
    [][\A k \in DOMAIN cache :
          \/ k \in DOMAIN cache' /\ cache'[k] = cache[k]
          \/ \E c \in Callers : BoundEvicts(c, k)]_vars

\* C8 amended: the value stored under a key changes only when a call for
\* that key inserts its own result over it, and an entry leaves the cache
\* only through the size bound's removal of the smallest key or through the
\* eviction a refresh=True call for that key runs before its rebuild.
C8_Immutable ==
    [][\A k \in DOMAIN cache :
          \/ k \in DOMAIN cache' /\ cache'[k] = cache[k]
          \/ \E c \in Callers : BoundEvicts(c, k)
          \/ \E c \in Callers :
                /\ pc[c] = "inlookup" /\ Moves(c) /\ call[c].refresh /\ CacheBlock(c) = k
                /\ k \notin DOMAIN cache'
          \/ \E c \in Callers :
                /\ pc[c] = "ininsert" /\ Moves(c) /\ CacheBlock(c) = k
                /\ k \in DOMAIN cache' /\ cache'[k] = result[c]]_vars

\* a key cached from the start now holds another snapshot
C8_Witness ==
    /\ (BaseKey + 1) \in DOMAIN cache
    /\ (BaseKey + CacheLimit) \in DOMAIN cache
    /\ cache[BaseKey + CacheLimit] # StartSnapshot
    /\ cache[BaseKey + 1] = StartSnapshot

\* a collaborator failed during the call: the chain/metagraph query, the
\* score feed, the environment registry, the scoring-config query or the
\* commitment query
CollaboratorFailed(in) ==
    \/ ~in.chain_ok
    \/ in.feed \in {"raise", "error"}
    \/ in.environments = <<>>
    \/ in.config_raises
    \/ in.commitments.raises

\* C9 as stated: whenever a collaborator fails during the call, the call does
\* not raise and returns an empty snapshot: no statuses, frontier count 0,
\* dominated count 0, population count 0.
C9_FailureContract_AsStated ==
    output.done /\ CollaboratorFailed(input) =>
        /\ ~output.raised
        /\ output.data.uids = <<>>
        /\ output.data.pareto_frontier_count = 0
        /\ output.data.dominated_count = 0
        /\ output.data.total_uids = 0

\* entry i of the scores list is the only one that cannot be parsed
OnlyMalformed(in, i) ==
    /\ ~in.scores[i].envs_ok
    /\ \A j \in 1..Len(in.scores) : j # i => in.scores[j].envs_ok

\* the same answers with entry i absent from the scores list
WithoutEntry(in, i) ==
    [in EXCEPT !.scores = SubSeq(in.scores, 1, i - 1) \o SubSeq(in.scores, i + 1, Len(in.scores))]

\* C10 as stated: when one miner's score entry is malformed and the others
\* are well-formed, only that record is skipped: every other miner has the
\* statistics and dominance status it has when the malformed record is absent.
C10_MalformedIsolation_AsStated ==
    \A i \in 1..Len(input.scores) :
        output.done /\ ~CollaboratorFailed(input) /\ input.feed = "ok" /\ OnlyMalformed(input, i) =>
            LET expected == GetAllDominanceData(WithoutEntry(input, i)).data
            IN  /\ ~output.raised
                /\ Len(output.data.uids) = Len(expected.uids)
                /\ \A u \in 1..Len(expected.uids) :
                      expected.uids[u].hotkey # input.scores[i].miner_hotkey =>
                          output.data.uids[u] = expected.uids[u]


\* the first_block _check_dominance resolves for hotkey h of the evaluator's input
EvalFirstBlock(h) == ResolveFirstBlock(input.stats[h], input.envs, 1)

\* the environments in which hotkey h of the evaluator's input has samples
EvalSampled(h) ==
    {e \in SeqRange(input.envs) : EnvSamples(input.scores_by_env_map[h], e) > 0}

C12_Transitive_AsStated ==
    output.done =>
        \A a, b, c \in EvalHotkeys :
            output.dominates[a, b] /\ output.dominates[b, c] => output.dominates[a, c]

\* hotkey h entered at first_block with 50 samples and the score in one environment
EvalMinerIs(h, first_block, score) ==
    /\ EvalFirstBlock(h) = first_block
    /\ input.scores_by_env_map[h] = 1 :> EnvData(score, 50)

\* C12 amended: the evaluator's relation is irreflexive but it is not
\* transitive and not a partial order.  With one environment and A
\* (first_block 100, 0.80), B (first_block 200, 0.83), C (first_block 300, 0.85),
\* A dominates B (0.83 does not clear 0.84), B dominates C (0.85 does not
\* clear 0.864), yet A does not dominate C: C clears 0.84 and dominates A, a
\* cycle.  Transitivity does hold among miners with one and the same
\* first_block and samples in the same environments (the SIMPLE rule).
C12_Transitive ==
    output.done =>
        /\ \A a \in EvalHotkeys : ~output.dominates[a, a]
        /\ \A a, b, c \in EvalHotkeys :
              EvalMinerIs(a, 100, 800) /\ EvalMinerIs(b, 200, 830) /\ EvalMinerIs(c, 300, 850) =>
                  /\ output.dominates[a, b] /\ output.dominates[b, c]
                  /\ ~output.dominates[a, c] /\ output.dominates[c, a]
        /\ \A a, b, c \in EvalHotkeys :
              /\ output.dominates[a, b] /\ output.dominates[b, c]
              /\ EvalFirstBlock(a) = EvalFirstBlock(b) /\ EvalFirstBlock(b) = EvalFirstBlock(c)
              /\ EvalSampled(a) = EvalSampled(b) /\ EvalSampled(b) = EvalSampled(c)
              => output.dominates[a, c]

\* the evaluator has run on the three miners of the cycle
C12_Witness ==
    /\ output.done
    /\ \E a, b, c \in EvalHotkeys :
          /\ EvalMinerIs(a, 100, 800) /\ EvalMinerIs(b, 200, 830) /\ EvalMinerIs(c, 300, 850)
          /\ output.dominates[a, b] /\ output.dominates[b, c] /\ output.dominates[c, a]

\* the environments in which both hotkeys have samples
SharedData(a, b) == EvalSampled(a) \cap EvalSampled(b)

\* C13: for all miners A and B such that no environment has sample_count > 0
\* for both, _check_dominance(A, B) and _check_dominance(B, A) are false,
\* whatever their first_block values.
C13_NoSharedData ==
    output.done =>
        \A a, b \in EvalHotkeys :
            SharedData(a, b) = {} => ~output.dominates[a, b] /\ ~output.dominates[b, a]

\* two miners with samples in different environments and different
\* first_blocks went through the threshold rule
C13_Witness ==
    /\ output.done
    /\ \E a, b \in EvalHotkeys :
          /\ EvalSampled(a) # {} /\ EvalSampled(b) # {} /\ SharedData(a, b) = {}
          /\ 0 < EvalFirstBlock(a) /\ EvalFirstBlock(a) < EvalFirstBlock(b)
          /\ ~output.dominates[a, b] /\ ~output.dominates[b, a]


\* the feed reports no sample for the hotkey in any environment
ZeroData(in, hotkey) ==
    \A i \in 1..Len(in.scores) :
        in.scores[i].miner_hotkey = hotkey =>
            \A e \in DOMAIN in.scores[i].scores_by_env :
                in.scores[i].scores_by_env[e].sample_count = 0

\* the call has returned a snapshot
Built == output.done /\ ~output.raised

\* C14: in every snapshot built by get_all_dominance_data, every miner with
\* zero samples in every environment is on the Pareto frontier, is not
\* dominated, has an empty dominating_uids list and appears in no other
\* miner's dominating_uids.
C14_ZeroDataMiners ==
    Built =>
        \A u \in 1..Len(output.data.uids) :
            ZeroData(input, output.data.uids[u].hotkey) =>
                /\ output.data.uids[u].on_pareto_frontier
                /\ ~output.data.uids[u].is_dominated
                /\ output.data.uids[u].dominating_uids = <<>>
                /\ ~output.data.uids[u].has_data
                /\ \A v \in 1..Len(output.data.uids) :
                      output.data.uids[u].uid \notin SeqRange(output.data.uids[v].dominating_uids)

\* a snapshot holds a miner whose entry has no samples next to a miner with data
C14_Witness ==
    /\ Built
    /\ \E u, v \in 1..Len(output.data.uids) :
          /\ ZeroData(input, output.data.uids[u].hotkey)
          /\ \E i \in 1..Len(input.scores) :
                /\ input.scores[i].miner_hotkey = output.data.uids[u].hotkey
                /\ DOMAIN input.scores[i].scores_by_env # {}
          /\ output.data.uids[u].on_pareto_frontier
          /\ output.data.uids[v].has_data

\* C15: in every snapshot built by get_all_dominance_data, for every target
\* T and every uid C in T's dominating_uids, age(C) >= age(T), the age being
\* derived from the miner's first_block (C did not enter after T); a
\* candidate strictly younger than T is never in T's dominator set.
C15_AgeMonotonicity ==
    Built =>
        \A t, c \in 1..Len(output.data.uids) :
            /\ output.data.uids[c].uid \in SeqRange(output.data.uids[t].dominating_uids) =>
                  /\ output.data.uids[c].age >= output.data.uids[t].age
                  /\ output.data.uids[c].first_block > 0 /\ output.data.uids[t].first_block > 0 =>
                        output.data.uids[c].first_block <= output.data.uids[t].first_block
            /\ output.data.uids[c].age < output.data.uids[t].age =>
                  output.data.uids[c].uid \notin SeqRange(output.data.uids[t].dominating_uids)

\* a strictly older miner is in the dominating_uids of a target
C15_Witness ==
    /\ Built
    /\ \E t, c \in 1..Len(output.data.uids) :
          /\ output.data.uids[c].uid \in SeqRange(output.data.uids[t].dominating_uids)
          /\ output.data.uids[c].age > output.data.uids[t].age
          /\ output.data.uids[t].age > 0


\* C16 as stated: _calculate_required_score(0.0) with the default parameters
\* returns 0.02.
C16_RequiredAtZero_AsStated ==
    output.done /\ input.prior_score = 0 => output.required = 20 * NanoPerMilli

\* C16 amended: _calculate_required_score(0.0) with the default parameters
\* returns 0.1: the error-rate term (1 - 0.0) * 0.2 = 0.2 is above the floor
\* 0.02 and is cut to the cap 0.1.
C16_RequiredAtZero ==
    output.done /\ input.prior_score = 0 => output.required = 100 * NanoPerMilli

C16_Witness == output.done /\ input.prior_score = 0 /\ output.required > 0

\* clamp(x, lo, hi)
Clamp(x, lo, hi) == IF x < lo THEN lo ELSE IF x > hi THEN hi ELSE x

C18_UidDomain_AsStated ==
    Built =>
        /\ Len(output.data.uids) = Len(input.hotkeys)
        /\ \A u \in 1..Len(output.data.uids) : output.data.uids[u].uid = u - 1
        /\ output.data.total_uids = Len(output.data.uids)


\* C20 as stated: for every miner and environment, the confidence interval
\* (lower, upper) produced by _reconstruct_stats_from_api_scores and reported
\* in the snapshot satisfies 0 <= lower <= upper <= 1, for all input scores
\* and thresholds in [0, 1].
C20_ConfidenceInterval_AsStated ==
    Built =>
        /\ \A h \in DOMAIN ReconOf(input).confidence_intervals :
              \A e \in DOMAIN ReconOf(input).confidence_intervals[h] :
                  LET ci == ReconOf(input).confidence_intervals[h][e]
                  IN  0 <= ci[1] /\ ci[1] <= ci[2] /\ ci[2] <= Milli
        /\ \A u \in 1..Len(output.data.uids) :
              \A e \in DOMAIN output.data.uids[u].env_confidence_intervals :
                  LET ci == output.data.uids[u].env_confidence_intervals[e]
                  IN  0 <= ci[1] /\ ci[1] <= ci[2] /\ ci[2] <= Milli


\* the orderings of a list of n elements: position i of the reordered list
\* holds the element of position f[i]
Orderings(n) == {f \in [1..n -> 1..n] : \A i, j \in 1..n : i # j => f[i] # f[j]}

Reordered(s, f) == [i \in 1..Len(s) |-> s[f[i]]]

\* the answers of the collaborators with the miners and the environments
\* listed in another order
Relabelled(in, f, g) ==
    [in EXCEPT !.hotkeys = Reordered(in.hotkeys, f),
               !.environments = Reordered(in.environments, g)]

EvalAccuracy(h, e) == EnvScore(input.scores_by_env_map[h], e)

\* the reference SIMPLE rule: a is strictly higher in at least one environment
\* where both have samples and b is strictly higher in none
ReferenceSimple(a, b) ==
    /\ \E e \in SharedData(a, b) : EvalAccuracy(a, e) > EvalAccuracy(b, e)
    /\ ~\E e \in SharedData(a, b) : EvalAccuracy(b, e) > EvalAccuracy(a, e)

\* the environments the later miner wins against the earlier one:
\* later.accuracy > required(earlier.accuracy) + 1e-9
ReferenceLaterWins(earlier, later) ==
    {e \in SharedData(earlier, later) :
        EvalAccuracy(later, e) * NanoPerMilli
            > CalculateRequiredScore(EvalAccuracy(earlier, e)) + Eps}

\* the reference rule of the claim for a pair with two resolvable first_blocks
ReferenceRule(a, b) ==
    IF EvalFirstBlock(a) = EvalFirstBlock(b) THEN ReferenceSimple(a, b)
    ELSE IF EvalFirstBlock(a) < EvalFirstBlock(b) THEN ReferenceLaterWins(a, b) = {}
    ELSE ReferenceLaterWins(b, a) = SharedData(a, b)

\* C21 as stated: for every pair (A, B) with two resolvable first_blocks,
\* _check_dominance(A, B) equals the reference: the SIMPLE rule when the
\* first_blocks are equal; otherwise, over the environments where both have
\* samples, the earlier miner dominates iff the later wins none of them and
\* the later miner dominates iff it wins all of them.
C21_ReferenceRule_AsStated ==
    output.done =>
        \A a, b \in EvalHotkeys :
            EvalFirstBlock(a) # 0 /\ EvalFirstBlock(b) # 0 =>
                output.dominates[a, b] = ReferenceRule(a, b)

\* C21 amended: for every pair (A, B) with two resolvable first_blocks,
\* _check_dominance(A, B) is false when no environment has samples for both,
\* and otherwise equals the reference: the SIMPLE rule when the first_blocks
\* are equal; else the earlier miner dominates iff the later wins none of the
\* environments where both have samples, and the later miner dominates iff it
\* wins all of them.
C21_ReferenceRule ==
    output.done =>
        \A a, b \in EvalHotkeys :
            EvalFirstBlock(a) # 0 /\ EvalFirstBlock(b) # 0 =>
                output.dominates[a, b] = (SharedData(a, b) # {} /\ ReferenceRule(a, b))

\* an earlier miner dominates a later one, a later miner dominates an earlier
\* one by winning both environments, and a pair of equal first_block is
\* decided by the SIMPLE rule
C21_Witness ==
    /\ output.done
    /\ \E a, b \in EvalHotkeys :
          /\ 0 < EvalFirstBlock(a) /\ EvalFirstBlock(a) < EvalFirstBlock(b)
          /\ output.dominates[a, b] /\ ReferenceLaterWins(a, b) = {}
    /\ \E a, b \in EvalHotkeys :
          /\ 0 < EvalFirstBlock(a) /\ EvalFirstBlock(a) < EvalFirstBlock(b)
          /\ output.dominates[b, a] /\ Cardinality(ReferenceLaterWins(a, b)) = 2
    /\ \E a, b \in EvalHotkeys :
          /\ 0 < EvalFirstBlock(a) /\ EvalFirstBlock(a) = EvalFirstBlock(b)
          /\ output.dominates[a, b] /\ ReferenceSimple(a, b)

\* the callers inside a section under _cache_lock
InLockedSection == {c \in Callers : pc[c] \in {"inlookup", "ininsert"}}

\* C22: in every reachable state of concurrent calls, a caller holds the
\* cache lock exactly while it is in the cache lookup / refresh eviction or in
\* the final insert with its size bound, never while it fetches data or runs
\* the rebuild, and at most one caller is in such a section at a time.
C22_LockDiscipline ==
    /\ \A c \in Callers : lock = c <=> c \in InLockedSection
    /\ \A c \in Callers : pc[c] \in {"idle", "lookup", "rebuild", "insert", "done", "raised"} => lock # c
    /\ Cardinality(InLockedSection) <= 1
    /\ lock = 0 <=> InLockedSection = {}

\* one caller is inside its insert section while the other has finished its
\* fetches and rebuild and waits for the lock
C22_Witness ==
    \E c, d \in Callers :
        /\ c # d
        /\ pc[c] = "ininsert" /\ lock = c
        /\ pc[d] = "insert" /\ call[d].rebuilt

\* both callers have finished a call with refresh=False for one key, both
\* missed the cache and rebuilt, and their rebuilds worked on the same answers
ConcurrentMisses(c, d) ==
    /\ c # d
    /\ pc[c] = "done" /\ pc[d] = "done"
    /\ ~call[c].refresh /\ ~call[d].refresh
    /\ call[c].rebuilt /\ call[d].rebuilt
    /\ CacheBlock(c) = CacheBlock(d)
    /\ input[c] = input[d]

\* C23: when two callers call with refresh=False for the same uncached key
\* and the external inputs are the same for both, both may run a rebuild,
\* both return equal snapshots, and after both have finished the cache holds
\* at most one entry for the key, equal to the snapshot both returned (none
\* when the snapshot is the empty one or the size bound removed the key).
C23_ConcurrentMisses ==
    \A c, d \in Callers :
        ConcurrentMisses(c, d) =>
            LET k == CacheBlock(c)
            IN  /\ result[c] = result[d]
                /\ k \in DOMAIN cache => cache[k] = result[c]
                /\ k \notin DOMAIN cache =>
                      \/ result[c].uids = <<>>
                      \/ Cardinality(DOMAIN cache) = CacheLimit /\ k < SetMin(DOMAIN cache)

\* both callers rebuilt for one key, each having started before the other
\* had fetched, and the key holds the snapshot both returned
C23_Witness ==
    \E c, d \in Callers :
        /\ ConcurrentMisses(c, d)
        /\ Before(Event("start", c), Event("fetch", d))
        /\ Before(Event("start", d), Event("fetch", c))
        /\ result[c].uids # <<>>
        /\ CacheBlock(c) \in DOMAIN cache /\ cache[CacheBlock(c)] = result[c]

\* the snapshot holds one status for every uid of its population, in uid
\* order, and its aggregate counts are those of its statuses as the finished
\* pass computes them
CompleteSnapshot(data) ==
    /\ data.total_uids > 0
    /\ Len(data.uids) = data.total_uids
    /\ \A i \in 1..Len(data.uids) : data.uids[i].uid = i - 1
    /\ data.dominated_count = Cardinality({i \in 1..Len(data.uids) : data.uids[i].is_dominated})
    /\ data.pareto_frontier_count =
          Cardinality({i \in 1..Len(data.uids) :
                          data.uids[i].on_pareto_frontier /\ data.uids[i].has_data})

\* C24: in every reachable state every snapshot stored in the cache is
\* complete (one status per uid of the population it was built for, the
\* aggregate counts of the finished pass), and so is every snapshot a caller
\* is served from the cache: no partially built snapshot is visible to
\* another caller.
C24_AtomicPublication ==
    /\ \A k \in DOMAIN cache : CompleteSnapshot(cache[k])
    /\ \A c \in Callers :
          pc[c] = "done" /\ ~call[c].rebuilt => CompleteSnapshot(result[c])

\* a caller was served from the cache a snapshot another caller's rebuild
\* had inserted while a rebuild that ended empty returned beside it
C24_Witness ==
    \E c, d \in Callers :
        /\ pc[c] = "done" /\ ~call[c].rebuilt /\ result[c] # StartSnapshot
        /\ pc[d] = "done" /\ call[d].rebuilt /\ result[d].uids = <<>>
        /\ CacheBlock(c) \in DOMAIN cache /\ cache[CacheBlock(c)] = result[c]

\* C25: in every snapshot, for every miner status, is_dominated is true iff
\* dominating_uids is non-empty, on_pareto_frontier is the negation of
\* is_dominated, dominated_by_count is the length of dominating_uids, and
\* dominating_active_count + dominating_non_active_count is dominated_by_count.
C25_StatusConsistency ==
    Built =>
        \A u \in 1..Len(output.data.uids) :
            LET status == output.data.uids[u]
            IN  /\ status.is_dominated <=> status.dominating_uids # <<>>
                /\ status.on_pareto_frontier <=> ~status.is_dominated
                /\ status.dominated_by_count = Len(status.dominating_uids)
                /\ status.dominating_active_count + status.dominating_non_active_count
                      = status.dominated_by_count

\* a snapshot holds a miner dominated by a non-active miner
C25_Witness ==
    /\ Built
    /\ \E u \in 1..Len(output.data.uids) :
          /\ output.data.uids[u].is_dominated
          /\ output.data.uids[u].dominated_by_count = 1
          /\ output.data.uids[u].dominating_non_active_count = 1
          /\ output.data.uids[u].dominating_active_count = 0

\* C26 as stated: every snapshot a call stores in the cache under block key k
\* reports block height k in its block field, also when the call was given
\* an explicit block argument different from the current chain block.
C26_KeyBlockAgreement_AsStated ==
    [][\A c \in Callers :
          pc[c] = "ininsert" /\ Moves(c) /\ CacheBlock(c) \in DOMAIN cache' =>
              cache'[CacheBlock(c)].block = CacheBlock(c)]_vars

\* C27: a rebuild that ends in the empty snapshot returns without an insert
\* and leaves the cache as it is; only full snapshots reach the insert.  A
\* refresh=False call changes nothing in the cache up to the end of its
\* rebuild, so with an empty rebuild the cache is left unchanged; with
\* refresh=True the entry of the key was removed before the rebuild and the
\* empty rebuild does not restore it: the key is absent when the call returns.
C27_FailedRebuildNeverPublishes ==
    [][\A c \in Callers :
          /\ pc[c] = "rebuild" /\ Moves(c) /\ result'[c].uids = <<>> =>
                /\ pc'[c] = "done"
                /\ cache' = cache
                /\ call[c].refresh => CacheBlock(c) \notin DOMAIN cache'
          /\ pc[c] \in {"lookup", "inlookup", "rebuild"} /\ ~call[c].refresh /\ Moves(c) =>
                cache' = cache
          /\ pc[c] \in {"insert", "ininsert"} /\ Moves(c) => result[c].uids # <<>>
          /\ pc'[c] = "done" /\ Moves(c) /\ result'[c].uids = <<>> => pc[c] = "rebuild"]_vars

\* a refresh=True call for a key the previous call had left in the cache has
\* returned the empty snapshot, and the key is gone
C27_Witness ==
    /\ pc[1] = "done" /\ call[1].refresh /\ call[1].rebuilt
    /\ result[1].uids = <<>>
    /\ prev.valid /\ prev.cached /\ prev.key = CacheBlock(1)
    /\ CacheBlock(1) \notin DOMAIN cache

\* C28 as stated: once a refresh=True call for key k has inserted its
\* snapshot, no rebuild for k that fetched its inputs before the refresh call
\* started replaces the entry under k: when both calls have finished, the
\* entry under k is the snapshot of the refresh call.
C28_NoStaleOverwrite_AsStated ==
    \A c, d \in Callers :
        /\ c # d
        /\ pc[c] = "done" /\ pc[d] = "done"
        /\ call[c].rebuilt /\ call[d].rebuilt /\ call[d].refresh
        /\ CacheBlock(c) = CacheBlock(d)
        /\ Before(Event("fetch", c), Event("start", d))
        /\ result[d].uids # <<>>
        /\ CacheBlock(d) \in DOMAIN cache
        => cache[CacheBlock(d)] = result[d]

\* the statuses of the snapshot that have data
WithData == {u \in 1..Len(output.data.uids) : output.data.uids[u].has_data}

\* C29 as stated: in every snapshot built by get_all_dominance_data in which
\* at least one miner has data, at least one miner with data is on the Pareto
\* frontier and pareto_frontier_count >= 1.
C29_NonEmptyFrontier_AsStated ==
    Built /\ WithData # {} =>
        /\ \E u \in WithData : output.data.uids[u].on_pareto_frontier
        /\ output.data.pareto_frontier_count >= 1

\* the environments in which the miner of status u has samples
SampledEnvs(u) ==
    {e \in DOMAIN output.data.uids[u].env_sample_counts :
        output.data.uids[u].env_sample_counts[e] > 0}

\* miner h entered at first_block 100 with accuracy low in environment
\* e_low and high in environment e_high, and no samples elsewhere
CycleMiner(h, e_low, e_high) ==
    \E i \in 1..Len(input.scores) :
        input.scores[i] = Entry(h, 100, (e_low :> EnvData(500, 50)) @@ (e_high :> EnvData(900, 50)))

\* C29 amended: a snapshot in which miners have data can have an empty
\* frontier among them.  Three miners of one first_block with samples in two
\* of three environments each, A (e1 0.5, e2 0.9), B (e2 0.5, e3 0.9),
\* C (e3 0.5, e1 0.9): A dominates B on e2, B dominates C on e3, C dominates A
\* on e1, every miner is dominated and pareto_frontier_count is 0.  At least
\* one miner with data is on the frontier (pareto_frontier_count >= 1)
\* whenever all miners with data have their samples in the same
\* environments, and whenever at most two miners have data.
C29_NonEmptyFrontier ==
    Built =>
        /\ CycleMiner(1, 1, 2) /\ CycleMiner(2, 2, 3) /\ CycleMiner(3, 3, 1) =>
              /\ \A u \in 1..Len(output.data.uids) :
                    output.data.uids[u].has_data /\ output.data.uids[u].is_dominated
              /\ output.data.uids[1].dominating_uids = <<2>>
              /\ output.data.uids[2].dominating_uids = <<0>>
              /\ output.data.uids[3].dominating_uids = <<1>>
              /\ output.data.pareto_frontier_count = 0
        /\ /\ WithData # {}
           /\ \/ \A u, v \in WithData : SampledEnvs(u) = SampledEnvs(v)
              \/ Cardinality(WithData) <= 2
           => /\ \E u \in WithData : output.data.uids[u].on_pareto_frontier
              /\ output.data.pareto_frontier_count >= 1

\* the snapshot of the three miners of the cycle
C29_Witness ==
    /\ Built
    /\ CycleMiner(1, 1, 2) /\ CycleMiner(2, 2, 3) /\ CycleMiner(3, 3, 1)
    /\ output.data.pareto_frontier_count = 0
    /\ Cardinality(WithData) = 3

\* C30 as stated: in every non-empty snapshot dominated_count is the number
\* of statuses with is_dominated, pareto_frontier_count is the number of
\* statuses with on_pareto_frontier (miners without data included), and the
\* two counts add up to the population count.
C30_AggregateCounts_AsStated ==
    Built /\ output.data.uids # <<>> =>
        LET statuses == output.data.uids
        IN  /\ output.data.dominated_count
                  = Cardinality({u \in 1..Len(statuses) : statuses[u].is_dominated})
            /\ output.data.pareto_frontier_count
                  = Cardinality({u \in 1..Len(statuses) : statuses[u].on_pareto_frontier})
            /\ output.data.pareto_frontier_count + output.data.dominated_count
                  = output.data.total_uids

====
